---- MODULE Spec2Model ----
(***************************************************************************)
(* Model of bindings/rust/build.rs: the bindgen naming callbacks           *)
(* (RenameFunctions) and the build pipeline (build_libfabric, main).       *)
(*                                                                         *)
(* Identifiers are sequences of one-character strings, paths are sequences *)
(* of path components, Option<T> is a sequence of length at most one.      *)
(***************************************************************************)
EXTENDS Integers, Sequences, FiniteSets, TLC

VARIABLES
    run,            \* number of build-script runs started so far
    vendored,       \* cfg!(feature = "vendored") of the current run
    pc,             \* position of the current run in main / build_libfabric
    fs,             \* paths that exist under OUT_DIR (kept across runs)
    fs_at_start,    \* fs as it was when the current run started
    invoked,        \* external steps invoked by the current run, in order
    include_paths,  \* main's include_paths, <<>> until it is bound
    stdout,         \* cargo directives printed by the current run
    stderr,         \* eprintln! lines of the current run
    item,           \* the ItemInfo handed to the parse callbacks (Option)
    binding,        \* the declaration bindgen emits for item (Option)
    peer            \* a second run on the same OUT_DIR: its pc and its steps

vars == <<run, vendored, pc, fs, fs_at_start, invoked, include_paths,
          stdout, stderr, item, binding, peer>>

pipeline_vars == <<run, vendored, pc, fs, fs_at_start, invoked, include_paths,
                   stdout, stderr>>

----------------------------------------------------------------------------
(* Bounds *)

MaxLen == 3
MaxRuns == 2
MaxRoots == 2

----------------------------------------------------------------------------
(* Option<T> *)

None == <<>>

Some(x) == <<x>>

----------------------------------------------------------------------------
(* RenameFunctions: the ParseCallbacks implementation *)

Alphabet == {"_", "f", "i"}

ItemKinds == {"Function", "Var", "Type"}

Identifiers == UNION {[1..n -> Alphabet] : n \in 1..MaxLen}

Items == [name : Identifiers, kind : ItemKinds]

starts_with(s, p) == Len(s) >= Len(p) /\ SubSeq(s, 1, Len(p)) = p

strip_prefix(s, p) ==
    IF starts_with(s, p) THEN Some(SubSeq(s, Len(p) + 1, Len(s))) ELSE None

RECURSIVE trim_start_matches(_, _)
trim_start_matches(s, p) ==
    IF Len(p) > 0 /\ starts_with(s, p)
    THEN trim_start_matches(SubSeq(s, Len(p) + 1, Len(s)), p)
    ELSE s

item_name_trim_all(original_name) ==
    IF starts_with(original_name.name, <<"_">>)
    THEN Some(trim_start_matches(original_name.name, <<"_">>))
    ELSE None

item_name(original_name) == strip_prefix(original_name.name, <<"_">>)

link_name_override_any_kind(item_info) ==
    IF starts_with(item_info.name, <<"_">>) THEN Some(item_info.name) ELSE None

generated_link_name_override(item_info) ==
    IF item_info.kind = "Function"
    THEN IF starts_with(item_info.name, <<"_">>)
         THEN Some(item_info.name)
         ELSE None
    ELSE None

\* The declaration bindgen emits for a parsed item: the callback's name when
\* it returns one, the raw name otherwise, plus the link_name attribute.
generated_binding_link_stripped(it) ==
    [name      |-> IF item_name(it) = None THEN it.name ELSE item_name(it)[1],
     link_name |-> IF generated_link_name_override(it) = None THEN None
                   ELSE item_name(it)]

generated_binding(it) ==
    [name      |-> IF item_name(it) = None THEN it.name ELSE item_name(it)[1],
     link_name |-> generated_link_name_override(it)]

----------------------------------------------------------------------------
(* Paths *)

join(p, c) == Append(p, c)

OUT_DIR == <<"OUT_DIR">>

libfabric_par_dir == <<"..", "..", "..", "..">>

Roots == {<<"usr", "include">>, <<"opt", "include">>}

IncludeRootLists == UNION {[1..n -> Roots] : n \in 0..MaxRoots}

IsUnder(p, d) == Len(p) >= Len(d) /\ SubSeq(p, 1, Len(d)) = d

----------------------------------------------------------------------------
(* main and build_libfabric: names computed from OUT_DIR *)

install_dir == join(OUT_DIR, "install")

libfabric_rsync_dir == join(OUT_DIR, "libfabric")

bindings_rs == join(OUT_DIR, "bindings.rs")

MANIFEST_DIR == <<"CARGO_MANIFEST_DIR">>

vendored_include_paths ==
    << libfabric_rsync_dir,
       join(libfabric_rsync_dir, "include"),
       join(join(libfabric_rsync_dir, "include"), "rdma"),
       join(join(libfabric_rsync_dir, "install"), "include"),
       join(join(join(libfabric_rsync_dir, "install"), "include"), "rdma") >>

link_search_directive ==
    [directive |-> "cargo:rustc-link-search", value |-> join(install_dir, "lib")]

link_lib_directive ==
    [directive |-> "cargo:rustc-link-lib", value |-> <<"fabric">>]

\* One external step of a run.  status is "running" while a spawned command
\* has not exited, "spawn_err" when status() returned Err, and otherwise the
\* step's result.
Step(name, cwd, args, status) ==
    [step |-> name, cwd |-> cwd, args |-> args, status |-> status]

Invoke(name, cwd, args, status) ==
    invoked' = Append(invoked, Step(name, cwd, args, status))

Exit(status) ==
    invoked' = [invoked EXCEPT ![Len(invoked)].status = status]

Running(name) ==
    /\ Len(invoked) > 0
    /\ invoked[Len(invoked)].step = name
    /\ invoked[Len(invoked)].status = "running"

ExitStatuses == {"ok", "fail"}

----------------------------------------------------------------------------
(* Pipeline *)

Init ==
    /\ run = 0
    /\ vendored = FALSE
    /\ pc = "idle"
    /\ fs = {}
    /\ fs_at_start = {}
    /\ invoked = <<>>
    /\ include_paths = <<>>
    /\ stdout = <<>>
    /\ stderr = <<>>
    /\ item = None
    /\ binding = None
    /\ peer = [pc |-> "idle", invoked |-> <<>>]

\* cargo starts the build script; the feature flag is fixed for the run.
StartRun ==
    /\ pc \in {"idle", "done", "aborted"}
    /\ run < MaxRuns
    /\ run' = run + 1
    /\ \E v \in BOOLEAN :
         /\ vendored' = v
         /\ pc' = IF v THEN "build_libfabric" ELSE "probe"
    /\ fs_at_start' = fs
    /\ invoked' = <<>>
    /\ include_paths' = <<>>
    /\ stdout' = <<>>
    /\ stderr' = <<>>
    /\ UNCHANGED <<fs, item, binding, peer>>

\* RsyncSpawn without the exists() test: the copy is made in every run.
RsyncSpawn_always_copies ==
    /\ pc = "build_libfabric"
    /\ \E spawned \in BOOLEAN :
         IF spawned
         THEN /\ Invoke("rsync", MANIFEST_DIR,
                        <<join(libfabric_par_dir, "libfabric"), OUT_DIR>>,
                        "running")
              /\ pc' = "rsync"
         ELSE /\ Invoke("rsync", MANIFEST_DIR,
                        <<join(libfabric_par_dir, "libfabric"), OUT_DIR>>,
                        "spawn_err")
              /\ pc' = "aborted"
    /\ UNCHANGED <<run, vendored, fs, fs_at_start, include_paths, stdout,
                   stderr, item, binding, peer>>

\* RsyncSpawn under a lock on OUT_DIR that a copying peer holds.
RsyncSpawn_waits_for_peer ==
    /\ pc = "build_libfabric"
    /\ peer.pc # "rsync"
    /\ IF libfabric_rsync_dir \in fs
       THEN /\ pc' = "autogen"
            /\ UNCHANGED invoked
       ELSE \E spawned \in BOOLEAN :
              IF spawned
              THEN /\ Invoke("rsync", MANIFEST_DIR,
                             <<join(libfabric_par_dir, "libfabric"), OUT_DIR>>,
                             "running")
                   /\ pc' = "rsync"
              ELSE /\ Invoke("rsync", MANIFEST_DIR,
                             <<join(libfabric_par_dir, "libfabric"), OUT_DIR>>,
                             "spawn_err")
                   /\ pc' = "aborted"
    /\ UNCHANGED <<run, vendored, fs, fs_at_start, include_paths, stdout,
                   stderr, item, binding, peer>>

\* build_libfabric, the exists() test and the spawn of rsync.
RsyncSpawn ==
    /\ pc = "build_libfabric"
    /\ IF libfabric_rsync_dir \in fs
       THEN /\ pc' = "autogen"
            /\ UNCHANGED invoked
       ELSE \E spawned \in BOOLEAN :
              IF spawned
              THEN /\ Invoke("rsync", MANIFEST_DIR,
                             <<join(libfabric_par_dir, "libfabric"), OUT_DIR>>,
                             "running")
                   /\ pc' = "rsync"
              ELSE /\ Invoke("rsync", MANIFEST_DIR,
                             <<join(libfabric_par_dir, "libfabric"), OUT_DIR>>,
                             "spawn_err")
                   /\ pc' = "aborted"
    /\ UNCHANGED <<run, vendored, fs, fs_at_start, include_paths, stdout,
                   stderr, item, binding, peer>>

\* rsync exits.  expect() only tests that status() returned Ok; the exit
\* status itself is dropped.
RsyncExit ==
    /\ pc = "rsync"
    /\ Running("rsync")
    /\ \E st \in ExitStatuses, created \in BOOLEAN :
         /\ st = "ok" => created
         /\ Exit(st)
         /\ fs' = IF created THEN fs \cup {libfabric_rsync_dir} ELSE fs
    /\ pc' = "autogen"
    /\ UNCHANGED <<run, vendored, fs_at_start, include_paths, stdout, stderr,
                   item, binding, peer>>

\* A command whose current_dir does not exist cannot be spawned.
CanSpawnIn(cwd) == cwd \in fs

\* AutogenSpawn run in the vendored source tree instead of the staged copy.
AutogenSpawn_in_source_tree ==
    /\ pc = "autogen"
    /\ stderr' = Append(stderr, "Run autogen.sh as part of libfabric compilation.")
    /\ \E spawned \in BOOLEAN :
         IF spawned
         THEN /\ Invoke("autogen", join(libfabric_par_dir, "libfabric"), <<>>,
                        "running")
              /\ pc' = "autogen_wait"
         ELSE /\ Invoke("autogen", join(libfabric_par_dir, "libfabric"), <<>>,
                        "spawn_err")
              /\ pc' = "aborted"
    /\ UNCHANGED <<run, vendored, fs, fs_at_start, include_paths, stdout,
                   item, binding, peer>>

AutogenSpawn ==
    /\ pc = "autogen"
    /\ stderr' = Append(stderr, "Run autogen.sh as part of libfabric compilation.")
    /\ \E spawned \in BOOLEAN :
         /\ spawned => CanSpawnIn(libfabric_rsync_dir)
         /\ IF spawned
            THEN /\ Invoke("autogen", libfabric_rsync_dir, <<>>, "running")
                 /\ pc' = "autogen_wait"
            ELSE /\ Invoke("autogen", libfabric_rsync_dir, <<>>, "spawn_err")
                 /\ pc' = "aborted"
    /\ UNCHANGED <<run, vendored, fs, fs_at_start, include_paths, stdout,
                   item, binding, peer>>

AutogenExit ==
    /\ pc = "autogen_wait"
    /\ Running("autogen")
    /\ \E st \in ExitStatuses :
         /\ Exit(st)
         /\ pc' = IF st = "ok" THEN "configure" ELSE "aborted"
    /\ UNCHANGED <<run, vendored, fs, fs_at_start, include_paths, stdout,
                   stderr, item, binding, peer>>

ConfigureSpawn ==
    /\ pc = "configure"
    /\ stderr' = Append(stderr, "Run configure as part of libfabric compilation.")
    /\ \E spawned \in BOOLEAN :
         /\ spawned => CanSpawnIn(libfabric_rsync_dir)
         /\ IF spawned
            THEN /\ Invoke("configure", libfabric_rsync_dir, <<install_dir>>,
                           "running")
                 /\ pc' = "configure_wait"
            ELSE /\ Invoke("configure", libfabric_rsync_dir, <<install_dir>>,
                           "spawn_err")
                 /\ pc' = "aborted"
    /\ UNCHANGED <<run, vendored, fs, fs_at_start, include_paths, stdout,
                   item, binding, peer>>

\* ConfigureExit that keeps waiting after a failed configure.
ConfigureExit_waits_after_failure ==
    /\ pc = "configure_wait"
    /\ Running("configure")
    /\ \E st \in ExitStatuses :
         /\ Exit(st)
         /\ pc' = IF st = "ok" THEN "make" ELSE "configure_wait"
    /\ UNCHANGED <<run, vendored, fs, fs_at_start, include_paths, stdout,
                   stderr, item, binding, peer>>

ConfigureExit ==
    /\ pc = "configure_wait"
    /\ Running("configure")
    /\ \E st \in ExitStatuses :
         /\ Exit(st)
         /\ pc' = IF st = "ok" THEN "make" ELSE "aborted"
    /\ UNCHANGED <<run, vendored, fs, fs_at_start, include_paths, stdout,
                   stderr, item, binding, peer>>

MakeSpawn ==
    /\ pc = "make"
    /\ stderr' = Append(stderr, "Run make install as part of libfabric compilation.")
    /\ \E spawned \in BOOLEAN :
         /\ spawned => CanSpawnIn(libfabric_rsync_dir)
         /\ IF spawned
            THEN /\ Invoke("make", libfabric_rsync_dir, <<>>, "running")
                 /\ pc' = "make_wait"
            ELSE /\ Invoke("make", libfabric_rsync_dir, <<>>, "spawn_err")
                 /\ pc' = "aborted"
    /\ UNCHANGED <<run, vendored, fs, fs_at_start, include_paths, stdout,
                   item, binding, peer>>

\* MakeExit with the assert!(... .success()) dropped.
MakeExit_status_dropped ==
    /\ pc = "make_wait"
    /\ Running("make")
    /\ \E st \in ExitStatuses, created \in BOOLEAN :
         /\ st = "ok" => created
         /\ Exit(st)
         /\ fs' = IF created THEN fs \cup {install_dir} ELSE fs
    /\ stderr' = Append(stderr, "Libfabric successfully compiled.")
    /\ pc' = "link_search"
    /\ UNCHANGED <<run, vendored, fs_at_start, include_paths, stdout,
                   item, binding, peer>>

\* make install exits; a successful install populates the --prefix given to
\* configure, a failed one may leave it partly populated.
MakeExit ==
    /\ pc = "make_wait"
    /\ Running("make")
    /\ \E st \in ExitStatuses, created \in BOOLEAN :
         /\ st = "ok" => created
         /\ Exit(st)
         /\ fs' = IF created THEN fs \cup {install_dir} ELSE fs
         /\ IF st = "ok"
            THEN /\ stderr' = Append(stderr, "Libfabric successfully compiled.")
                 /\ pc' = "link_search"
            ELSE /\ stderr' = stderr
                 /\ pc' = "aborted"
    /\ UNCHANGED <<run, vendored, fs_at_start, include_paths, stdout,
                   item, binding, peer>>

\* EmitLinkSearch that also asks for the system library.
EmitLinkSearch_and_link_lib ==
    /\ pc = "link_search"
    /\ stdout' = stdout \o <<link_lib_directive, link_search_directive>>
    /\ include_paths' = vendored_include_paths
    /\ pc' = "cc"
    /\ UNCHANGED <<run, vendored, fs, fs_at_start, invoked, stderr,
                   item, binding, peer>>

\* main, vendored arm after build_libfabric returned.
EmitLinkSearch ==
    /\ pc = "link_search"
    /\ stdout' = Append(stdout, link_search_directive)
    /\ include_paths' = vendored_include_paths
    /\ pc' = "cc"
    /\ UNCHANGED <<run, vendored, fs, fs_at_start, invoked, stderr,
                   item, binding, peer>>

\* main, system arm: the link directive, then the pkg-config probe.
ProbeSystem ==
    /\ pc = "probe"
    /\ stdout' = Append(stdout, link_lib_directive)
    /\ \/ /\ Invoke("probe", MANIFEST_DIR, <<>>, "fail")
          /\ include_paths' = include_paths
          /\ pc' = "aborted"
       \/ \E roots \in IncludeRootLists :
            /\ Invoke("probe", MANIFEST_DIR, roots, "ok")
            /\ include_paths' = roots
            /\ pc' = "cc"
    /\ UNCHANGED <<run, vendored, fs, fs_at_start, stderr, item, binding,
                   peer>>

\* cc::Build::compile("wrapper") with every include path.
CompileWrapper ==
    /\ pc = "cc"
    /\ \E st \in ExitStatuses :
         /\ Invoke("cc", MANIFEST_DIR, include_paths, st)
         /\ pc' = IF st = "ok" THEN "bindgen" ELSE "aborted"
    /\ UNCHANGED <<run, vendored, fs, fs_at_start, include_paths, stdout,
                   stderr, item, binding, peer>>

\* GenerateBindings that loses the first include path.
GenerateBindings_drops_first_path ==
    /\ pc = "bindgen"
    /\ \E st \in ExitStatuses :
         /\ Invoke("bindgen", MANIFEST_DIR,
                   IF include_paths = <<>> THEN <<>> ELSE Tail(include_paths), st)
         /\ pc' = IF st = "ok" THEN "write" ELSE "aborted"
    /\ UNCHANGED <<run, vendored, fs, fs_at_start, include_paths, stdout,
                   stderr, item, binding, peer>>

\* bindgen::Builder ... generate() with -I for every include path.
GenerateBindings ==
    /\ pc = "bindgen"
    /\ \E st \in ExitStatuses :
         /\ Invoke("bindgen", MANIFEST_DIR, include_paths, st)
         /\ pc' = IF st = "ok" THEN "write" ELSE "aborted"
    /\ UNCHANGED <<run, vendored, fs, fs_at_start, include_paths, stdout,
                   stderr, item, binding, peer>>

\* bindings.write_to_file(OUT_DIR/bindings.rs)
WriteBindings ==
    /\ pc = "write"
    /\ \E st \in ExitStatuses :
         /\ Invoke("write", MANIFEST_DIR, <<bindings_rs>>, st)
         /\ fs' = IF st = "ok" THEN fs \cup {bindings_rs} ELSE fs
         /\ pc' = IF st = "ok" THEN "done" ELSE "aborted"
    /\ UNCHANGED <<run, vendored, fs_at_start, include_paths, stdout,
                   stderr, item, binding, peer>>

Next ==
    \/ StartRun
    \/ RsyncSpawn
    \/ RsyncExit
    \/ AutogenSpawn
    \/ AutogenExit
    \/ ConfigureSpawn
    \/ ConfigureExit
    \/ MakeSpawn
    \/ MakeExit
    \/ EmitLinkSearch
    \/ ProbeSystem
    \/ CompileWrapper
    \/ GenerateBindings
    \/ WriteBindings

Spec == Init /\ [][Next]_vars

\* The steps of a started run: everything but cargo starting another run.
RunStep ==
    \/ RsyncSpawn
    \/ RsyncExit
    \/ AutogenSpawn
    \/ AutogenExit
    \/ ConfigureSpawn
    \/ ConfigureExit
    \/ MakeSpawn
    \/ MakeExit
    \/ EmitLinkSearch
    \/ ProbeSystem
    \/ CompileWrapper
    \/ GenerateBindings
    \/ WriteBindings

\* The build script runs to completion once started, and every external
\* command that was started exits; cargo need not start another run.
SpecLive == Init /\ [][Next]_vars /\ WF_vars(RunStep)

----------------------------------------------------------------------------
(* A second, concurrent Vendored run on the same OUT_DIR.  It executes the    *)
(* same build_libfabric code; it is followed from its exists() test to the    *)
(* exit of autogen.sh and shares only fs with the first run.                  *)

PeerAt(position, steps) == peer' = [pc |-> position, invoked |-> steps]

PeerRunning(name) ==
    /\ Len(peer.invoked) > 0
    /\ peer.invoked[Len(peer.invoked)].step = name
    /\ peer.invoked[Len(peer.invoked)].status = "running"

PeerExited(status) ==
    [peer.invoked EXCEPT ![Len(peer.invoked)].status = status]

PeerStart ==
    /\ peer.pc = "idle"
    /\ PeerAt("build_libfabric", <<>>)
    /\ UNCHANGED <<pipeline_vars, item, binding>>

PeerRsyncSpawn ==
    /\ peer.pc = "build_libfabric"
    /\ IF libfabric_rsync_dir \in fs
       THEN PeerAt("autogen", peer.invoked)
       ELSE \E spawned \in BOOLEAN :
              IF spawned
              THEN PeerAt("rsync",
                     Append(peer.invoked,
                            Step("rsync", MANIFEST_DIR,
                                 <<join(libfabric_par_dir, "libfabric"), OUT_DIR>>,
                                 "running")))
              ELSE PeerAt("aborted",
                     Append(peer.invoked,
                            Step("rsync", MANIFEST_DIR,
                                 <<join(libfabric_par_dir, "libfabric"), OUT_DIR>>,
                                 "spawn_err")))
    /\ UNCHANGED <<pipeline_vars, item, binding>>

PeerRsyncExit ==
    /\ peer.pc = "rsync"
    /\ PeerRunning("rsync")
    /\ \E st \in ExitStatuses, created \in BOOLEAN :
         /\ st = "ok" => created
         /\ PeerAt("autogen", PeerExited(st))
         /\ fs' = IF created THEN fs \cup {libfabric_rsync_dir} ELSE fs
    /\ UNCHANGED <<run, vendored, pc, fs_at_start, invoked, include_paths,
                   stdout, stderr, item, binding>>

PeerAutogenSpawn ==
    /\ peer.pc = "autogen"
    /\ \E spawned \in BOOLEAN :
         /\ spawned => CanSpawnIn(libfabric_rsync_dir)
         /\ IF spawned
            THEN PeerAt("autogen_wait",
                   Append(peer.invoked,
                          Step("autogen", libfabric_rsync_dir, <<>>, "running")))
            ELSE PeerAt("aborted",
                   Append(peer.invoked,
                          Step("autogen", libfabric_rsync_dir, <<>>, "spawn_err")))
    /\ UNCHANGED <<pipeline_vars, item, binding>>

PeerAutogenExit ==
    /\ peer.pc = "autogen_wait"
    /\ PeerRunning("autogen")
    /\ \E st \in ExitStatuses :
         PeerAt(IF st = "ok" THEN "configure" ELSE "aborted", PeerExited(st))
    /\ UNCHANGED <<pipeline_vars, item, binding>>

NextConc ==
    \/ Next
    \/ PeerStart
    \/ PeerRsyncSpawn
    \/ PeerRsyncExit
    \/ PeerAutogenSpawn
    \/ PeerAutogenExit

SpecConc == Init /\ [][NextConc]_vars

----------------------------------------------------------------------------
(* The naming callbacks applied to one parsed item *)

InitNames ==
    /\ run = 0
    /\ vendored = FALSE
    /\ pc = "idle"
    /\ fs = {}
    /\ fs_at_start = {}
    /\ invoked = <<>>
    /\ include_paths = <<>>
    /\ stdout = <<>>
    /\ stderr = <<>>
    /\ \E it \in Items : item = Some(it)
    /\ binding = None
    /\ peer = [pc |-> "idle", invoked |-> <<>>]

\* bindgen calls both callbacks for the item and emits its declaration.
EmitBinding ==
    /\ item # None
    /\ binding = None
    /\ binding' = Some(generated_binding(item[1]))
    /\ UNCHANGED <<pipeline_vars, item, peer>>

NextNames == EmitBinding

SpecNames == InitNames /\ [][NextNames]_vars

----------------------------------------------------------------------------
(* Properties of the naming callbacks (checked under SpecNames) *)

RawName == item[1].name

RawKind == item[1].kind

Emitted == binding[1]

HasMarker == RawName[1] = "_"

\* C1: for every function item whose raw name S begins with '_', the emitted
\* declaration is displayed as S without its first character and carries S
\* itself as link name, so '_' followed by the display name is the link name.
C1_RoundTrip ==
    (binding # None /\ RawKind = "Function" /\ HasMarker) =>
        /\ Emitted.name = SubSeq(RawName, 2, Len(RawName))
        /\ Len(Emitted.name) = Len(RawName) - 1
        /\ Emitted.link_name = Some(RawName)
        /\ <<"_">> \o Emitted.name = Emitted.link_name[1]

C1_Witness ==
    /\ binding # None
    /\ item[1] = [name |-> <<"_", "f", "i">>, kind |-> "Function"]
    /\ Emitted = [name |-> <<"f", "i">>, link_name |-> Some(<<"_", "f", "i">>)]

\* C2: for an item of any kind, the emitted name is the raw name with exactly
\* one leading '_' removed when the raw name begins with '_' (every other
\* character kept, so "__f" becomes "_f"), and the raw name itself otherwise.
C2_DisplayName ==
    binding # None =>
        IF HasMarker
        THEN /\ Len(Emitted.name) = Len(RawName) - 1
             /\ \A k \in 1..Len(Emitted.name) : Emitted.name[k] = RawName[k + 1]
        ELSE Emitted.name = RawName

C2_Witness ==
    /\ binding # None
    /\ item[1] = [name |-> <<"_", "_", "f">>, kind |-> "Type"]
    /\ Emitted.name = <<"_", "f">>

\* C3: the link-name override is the unchanged raw name exactly when the item
\* is a function whose name begins with '_'; a function without the marker
\* and every non-function item, marked or not, gets no override.
C3_LinkSymbol ==
    binding # None =>
        IF RawKind = "Function" /\ HasMarker
        THEN Emitted.link_name = Some(RawName)
        ELSE Emitted.link_name = None

C3_Witness ==
    /\ binding # None
    /\ item[1] = [name |-> <<"_", "f", "i">>, kind |-> "Type"]
    /\ Emitted.name = <<"f", "i">>
    /\ Emitted.link_name = None

----------------------------------------------------------------------------
(* Properties of the pipeline (checked under Spec) *)

Steps == 1..Len(invoked)

Attempted(name) == \E i \in Steps : invoked[i].step = name

StatusOf(name) ==
    IF Attempted(name)
    THEN invoked[CHOOSE i \in Steps : invoked[i].step = name].status
    ELSE "none"

Range(seq) == {seq[i] : i \in 1..Len(seq)}

RunEnded == pc \in {"done", "aborted"}

VendoredCommands == {"rsync", "autogen", "configure", "make"}

VendoredOrder ==
    <<"rsync", "autogen", "configure", "make", "cc", "bindgen", "write">>

IsPrefix(s, t) == Len(s) <= Len(t) /\ s = SubSeq(t, 1, Len(s))

\* C4: in SystemInstalled mode, when the registry reports a number of include
\* roots other than one, the run aborts with no header directory produced and
\* neither the shim compiler nor the binding generator is invoked.
C4_AbortUnlessOneRoot ==
    \A i \in Steps :
        (invoked[i].step = "probe" /\ invoked[i].status = "ok"
           /\ Len(invoked[i].args) # 1) =>
            /\ pc = "aborted"
            /\ include_paths = <<>>
            /\ ~Attempted("cc")
            /\ ~Attempted("bindgen")

\* C5: in SystemInstalled mode, when the registry reports exactly one include
\* root R, the shim compiler and the binding generator are handed exactly
\* <<R, R/rdma, R/rdma/providers>>.
C5_ThreeEntryPath ==
    \A i \in Steps : \A j \in Steps :
        (invoked[i].step = "probe" /\ invoked[i].status = "ok"
           /\ Len(invoked[i].args) = 1
           /\ invoked[j].step \in {"cc", "bindgen"}) =>
            LET R == invoked[i].args[1]
            IN  invoked[j].args =
                  <<R, join(R, "rdma"), join(join(R, "rdma"), "providers")>>

\* C6: every command of the vendored builder has its exit status checked: a
\* command that exits non-zero is the last step of its run and the run is
\* aborted.
C6_ExitStatusChecked ==
    \A i \in Steps :
        (invoked[i].step \in VendoredCommands /\ invoked[i].status = "fail") =>
            /\ i = Len(invoked)
            /\ pc = "aborted"

\* C7: in a Vendored run that started with the staging directory absent, the
\* steps occur in the order rsync, autogen, configure, make, shim compile,
\* bindgen, write, each at most once; a step is invoked only when the one
\* before it has completed; configure gets a prefix strictly under OUT_DIR;
\* the shim compiler and bindgen run only after make install succeeded.
C7_VendoredOrder ==
    (run > 0 /\ vendored /\ libfabric_rsync_dir \notin fs_at_start) =>
        /\ IsPrefix([i \in Steps |-> invoked[i].step], VendoredOrder)
        /\ \A i \in Steps : i < Len(invoked) => invoked[i].status # "running"
        /\ \A i \in Steps :
             invoked[i].step = "configure" =>
                /\ Len(invoked[i].args) = 1
                /\ IsUnder(invoked[i].args[1], OUT_DIR)
                /\ invoked[i].args[1] # OUT_DIR
        /\ \A j \in Steps :
             invoked[j].step \in {"cc", "bindgen"} =>
                \E i \in 1..(j - 1) :
                    invoked[i].step = "make" /\ invoked[i].status = "ok"

C7_Witness ==
    /\ vendored
    /\ libfabric_rsync_dir \notin fs_at_start
    /\ pc = "done"
    /\ [i \in Steps |-> invoked[i].step] = VendoredOrder

\* C8: in Vendored mode after a successful install the header search path
\* holds the staged tree's include directories and the include directory of
\* the install prefix, the directory given to configure as --prefix and whose
\* lib subdirectory is the link-search directive.
C8_InstallPrefixHeaders ==
    (vendored /\ StatusOf("make") = "ok" /\ include_paths # <<>>) =>
        \E i \in Steps :
            /\ invoked[i].step = "configure"
            /\ LET prefix == invoked[i].args[1]
               IN  /\ join(libfabric_rsync_dir, "include") \in Range(include_paths)
                   /\ [directive |-> "cargo:rustc-link-search",
                       value |-> join(prefix, "lib")] \in Range(stdout)
                   /\ join(prefix, "include") \in Range(include_paths)

C10_AllOrNothing ==
    \A i \in Steps :
        (invoked[i].step = "write" /\ invoked[i].status = "ok") =>
            \A j \in 1..(i - 1) : invoked[j].status = "ok"

ProgressMessages ==
    {"Run autogen.sh as part of libfabric compilation.",
     "Run configure as part of libfabric compilation.",
     "Run make install as part of libfabric compilation.",
     "Libfabric successfully compiled."}

IsDirectoryReport(line) == line \notin ProgressMessages

ReportedDirectories == SelectSeq(stderr, IsDirectoryReport)

\* C12: in both modes, by the time the header search path is handed to the
\* shim compiler or the binding generator, the build log holds a report of
\* every directory of the path, in the order of the path.
C12_PathReportedBeforeUse ==
    (Attempted("cc") \/ Attempted("bindgen")) =>
        ReportedDirectories = include_paths

\* C14: the shim compiler and the binding generator of a run are handed the
\* same header search path, the one the resolver produced (the probe's list
\* in SystemInstalled mode, the vendored list in Vendored mode), with nothing
\* added, removed or reordered.
C14_SamePathForBothTools ==
    /\ \A i \in Steps :
         invoked[i].step \in {"cc", "bindgen"} =>
            /\ invoked[i].args = include_paths
            /\ vendored => invoked[i].args = vendored_include_paths
            /\ ~vendored => \E k \in Steps : /\ invoked[k].step = "probe"
                                              /\ invoked[k].args = invoked[i].args
    /\ \A i \in Steps : \A j \in Steps :
         (invoked[i].step = "cc" /\ invoked[j].step = "bindgen") =>
            invoked[i].args = invoked[j].args

C14_Witness ==
    /\ ~vendored
    /\ Attempted("cc")
    /\ Attempted("bindgen")
    /\ Len(include_paths) = 2
    /\ include_paths[1] # include_paths[2]
    /\ \A i \in Steps :
         invoked[i].step \in {"cc", "bindgen"} => invoked[i].args = include_paths

\* C15: the pipeline never writes the vendored source tree: autogen.sh,
\* configure and make install run with the staging directory under OUT_DIR as
\* working directory, rsync has the source tree as its source and OUT_DIR as
\* its destination, the install prefix and bindings.rs lie under OUT_DIR, and
\* so does every path the pipeline creates.
C15_SourceTreeNeverWritten ==
    /\ \A i \in Steps :
         /\ invoked[i].step \in {"autogen", "configure", "make"} =>
              /\ invoked[i].cwd = libfabric_rsync_dir
              /\ IsUnder(invoked[i].cwd, OUT_DIR)
         /\ invoked[i].step = "rsync" =>
              /\ invoked[i].args[1] = <<"..", "..", "..", "..", "libfabric">>
              /\ IsUnder(invoked[i].args[2], OUT_DIR)
         /\ invoked[i].step \in {"configure", "write"} =>
              \A a \in Range(invoked[i].args) : IsUnder(a, OUT_DIR)
    /\ \A p \in fs : IsUnder(p, OUT_DIR)

C15_Witness ==
    /\ vendored
    /\ pc = "done"
    /\ StatusOf("rsync") = "ok"
    /\ fs = {<<"OUT_DIR", "libfabric">>, <<"OUT_DIR", "install">>,
             <<"OUT_DIR", "bindings.rs">>}
    /\ \A i \in Steps :
         invoked[i].step \in {"autogen", "configure", "make"} =>
            invoked[i].cwd = <<"OUT_DIR", "libfabric">>

RunInProgress == pc \notin {"idle", "done", "aborted"}

WaitStates == {"rsync", "autogen_wait", "configure_wait", "make_wait"}

\* C16: given that every started command exits, a started run ends, either
\* done with bindings.rs written or aborted without writing it; while it has
\* not ended it is never stuck: where it waits, a command it spawned is still
\* running, and everywhere else its next step can be taken; it invokes no
\* step twice.
C16_RunEnds ==
    /\ RunInProgress ~> RunEnded
    /\ [](RunEnded => (pc = "done" <=> StatusOf("write") = "ok"))
    /\ [](RunInProgress => ENABLED RunStep)
    /\ [](pc \in WaitStates =>
            (Len(invoked) > 0 /\ invoked[Len(invoked)].status = "running"))
    /\ [](\A i \in Steps : \A j \in Steps :
            invoked[i].step = invoked[j].step => i = j)

C16_Witness ==
    /\ run = 2
    /\ pc = "aborted"
    /\ vendored
    /\ StatusOf("configure") = "fail"
    /\ ~Attempted("make")

----------------------------------------------------------------------------
(* Properties of two concurrent runs (checked under SpecConc) *)

PeerAttempted(name) ==
    \E i \in 1..Len(peer.invoked) : peer.invoked[i].step = name

\* C13: nothing serialises the exists() test and the copy of two Vendored
\* runs on one OUT_DIR: a run at the test with the staging directory absent
\* can always go on to spawn rsync, and a run due to start autogen.sh can
\* always attempt it, whatever the other run is doing, a copy in progress
\* included.
C13_NothingSerialisesStaging ==
    /\ (vendored /\ pc = "build_libfabric") => ENABLED RsyncSpawn
    /\ peer.pc = "build_libfabric" => ENABLED PeerRsyncSpawn
    /\ (vendored /\ pc = "autogen") => ENABLED AutogenSpawn
    /\ peer.pc = "autogen" => ENABLED PeerAutogenSpawn

\* Both runs found the staging directory absent and both spawned rsync; the
\* first run's copy has ended and its autogen.sh is running in the staging
\* directory while the peer's rsync is still copying into it.
C13_Witness ==
    /\ vendored
    /\ libfabric_rsync_dir \notin fs_at_start
    /\ Attempted("rsync")
    /\ PeerAttempted("rsync")
    /\ peer.pc = "rsync"
    /\ PeerRunning("rsync")
    /\ pc = "autogen_wait"
    /\ Running("autogen")
    /\ invoked[Len(invoked)].cwd = peer.invoked[1].args[2] \o <<"libfabric">>

====
